---- MODULE Spec2Model ----
(***************************************************************************)
(* A model of mkctr (src/mkctr.go): the platform policy (verifyPlatform,   *)
(* canRunLocal), the layer builder (layerFromFiles, tarFile) and one run   *)
(* of fetchAndBuild with createImageForBase and the delivery of the        *)
(* result.                                                                 *)
(*                                                                         *)
(* Three specifications share the variables:                               *)
(*   SpecPolicy  verifyPlatform applied to every platform/target/host      *)
(*   SpecLayer   two executions of layerFromFiles over the same files      *)
(*   Spec        one execution of fetchAndBuild                            *)
(***************************************************************************)
EXTENDS Integers, Sequences, FiniteSets, TLC

VARIABLES
    \* ---- the invoking host (runtime.GOOS, runtime.GOARCH)
    hostOS, hostArch,
    \* ---- SpecPolicy: the arguments and the result of verifyPlatform
    polPlatform, polTarget, polResult,
    \* ---- SpecLayer: the files map, the file system and two executions
    files, mtime, remaining, tw, dirs, layerStatus,
    \* ---- Spec: buildParams, the base and the position in fetchAndBuild
    bp, base, pc, i, adds, cur, out, result, trace, tmpDirs, load

policyVars == <<polPlatform, polTarget, polResult>>
layerVars == <<files, mtime, remaining, tw, dirs, layerStatus>>
runVars == <<bp, base, pc, i, adds, cur, out, result, trace, tmpDirs, load>>
hostVars == <<hostOS, hostArch>>
vars == <<hostVars, policyVars, layerVars, runVars>>

(***************************************************************************)
(* Platforms.  A variant is a sequence of characters so that goarm can     *)
(* look at its length and at each character.                               *)
(***************************************************************************)
NoVariant == <<>>

Platform(os, arch, variant) == [OS |-> os, Architecture |-> arch, Variant |-> variant]

OSes == {"linux", "windows", "darwin"}

Archs == {"amd64", "arm64", "arm", "386", "riscv64"}

Targets == {"", "flyio", "local"}

\* the results of verifyPlatform: nil or one of its three errors
ErrUnsupportedOS == "unsupported OS"

ErrNotRequired == "not required for target"

ErrUnsupportedArch == "unsupported arch"

\* canRunLocal(p), with runtime.GOOS and runtime.GOARCH as arguments
canRunLocal(p, goos, goarch) ==
    IF p.OS # "linux" THEN FALSE
    ELSE IF goos = "linux" THEN p.Architecture = goarch
    ELSE IF goos = "darwin" THEN p.Architecture = "amd64"
    ELSE FALSE

\* a verifyPlatform that tests the architecture list before the target
verifyPlatformArchFirst(p, target, goos, goarch) ==
    IF p.OS # "linux" THEN ErrUnsupportedOS
    ELSE IF p.Architecture \notin {"arm", "arm64", "amd64", "386"} THEN ErrUnsupportedArch
    ELSE IF target = "local" /\ ~canRunLocal(p, goos, goarch) THEN ErrNotRequired
    ELSE IF target = "flyio" /\ p.Architecture # "amd64" THEN ErrNotRequired
    ELSE "nil"

\* verifyPlatform(p, target)
verifyPlatform(p, target, goos, goarch) ==
    IF p.OS # "linux" THEN ErrUnsupportedOS
    ELSE IF target = "local" /\ ~canRunLocal(p, goos, goarch) THEN ErrNotRequired
    ELSE IF target = "flyio" /\ p.Architecture # "amd64" THEN ErrNotRequired
    ELSE IF p.Architecture \notin {"arm", "arm64", "amd64", "386"} THEN ErrUnsupportedArch
    ELSE "nil"

(***************************************************************************)
(* The layer builder.  A path is the sequence of its components, so that   *)
(* filepath.Dir, filepath.Join and strings.TrimPrefix are computed.        *)
(***************************************************************************)
MaxFiles == 2

\* the two executions of layerFromFiles that are compared
Runs == {1, 2}

\* modification times a source file can have; time.Time{} is ZeroTime
ZeroTime == 0

MTimes == {1, 2}

\* the source tree: two regular files, a directory with two files, a path
\* that does not exist, a file that cannot be opened and a directory that
\* cannot be listed
Sources == {<<"s1">>, <<"s2">>, <<"d">>, <<"gone">>, <<"locked">>, <<"lockdir">>}

Dests == {<<"a", "x">>, <<"a", "y">>, <<"b", "x">>}

\* os.Lstat / fs.DirEntry / os.Open of a source path
Stat(p) ==
    CASE p = <<"s1">> -> [exists |-> TRUE, isDir |-> FALSE, readable |-> TRUE, content |-> "c1", size |-> 1]
      [] p = <<"s2">> -> [exists |-> TRUE, isDir |-> FALSE, readable |-> TRUE, content |-> "c2", size |-> 2]
      [] p = <<"d">> -> [exists |-> TRUE, isDir |-> TRUE, readable |-> TRUE, content |-> "", size |-> 0]
      [] p = <<"d", "f1">> -> [exists |-> TRUE, isDir |-> FALSE, readable |-> TRUE, content |-> "c3", size |-> 3]
      [] p = <<"d", "f2">> -> [exists |-> TRUE, isDir |-> FALSE, readable |-> TRUE, content |-> "c4", size |-> 4]
      [] p = <<"locked">> -> [exists |-> TRUE, isDir |-> FALSE, readable |-> FALSE, content |-> "c5", size |-> 5]
      [] p = <<"lockdir">> -> [exists |-> TRUE, isDir |-> TRUE, readable |-> FALSE, content |-> "", size |-> 0]
      [] OTHER -> [exists |-> FALSE, isDir |-> FALSE, readable |-> FALSE, content |-> "", size |-> 0]

\* os.ReadDir: the children of a directory in lexical order
ReadDir(p) == IF p = <<"d">> THEN << <<"d", "f1">>, <<"d", "f2">> >> ELSE <<>>

\* strings.TrimPrefix(srcWalk, src)
TrimPrefix(srcWalk, src) ==
    IF Len(srcWalk) >= Len(src) /\ SubSeq(srcWalk, 1, Len(src)) = src
    THEN SubSeq(srcWalk, Len(src) + 1, Len(srcWalk))
    ELSE srcWalk

\* filepath.Join(dst, path)
Join(dst, path) == dst \o path

\* filepath.Dir(p)
Dir(p) == IF Len(p) = 0 THEN p ELSE SubSeq(p, 1, Len(p) - 1)

\* the tar header (and content) written for a directory and for a file
DirEntry(dir) ==
    [Name |-> dir, Typeflag |-> "dir", Mode |-> 365, ModTime |-> ZeroTime, Size |-> 0, Content |-> ""]

FileEntry(dst, st) ==
    [Name |-> dst, Typeflag |-> "reg", Mode |-> 365, ModTime |-> ZeroTime, Size |-> st.size, Content |-> st.content]

\* the closure writeDir of layerFromFiles; w is [tw, dirs, status]
writeDir(w, dir) ==
    IF dir \in w.dirs THEN w
    ELSE [w EXCEPT !.tw = Append(@, DirEntry(dir)), !.dirs = @ \cup {dir}]

\* tarFile(tw, src, dst); mt is the modification time file.Stat() reports
tarFile(w, src, dst, mt) ==
    IF ~Stat(src).readable THEN [w EXCEPT !.status = "err"]
    ELSE [w EXCEPT !.tw = Append(@, FileEntry(dst, Stat(src)))]

\* the function literal handed to filepath.WalkDir: its err argument is
\* ignored, and d is nil when srcWalk could not be examined
walkFn(w, src, dst, srcWalk, mt) ==
    LET path == TrimPrefix(srcWalk, src)
        dstWalk == Join(dst, path)
        w1 == writeDir(w, Dir(dstWalk))
    IN  IF ~Stat(srcWalk).exists THEN [w1 EXCEPT !.status = "panic"]
        ELSE IF Stat(srcWalk).isDir THEN writeDir(w1, dstWalk)
        ELSE tarFile(w1, srcWalk, dstWalk, mt)

\* filepath.WalkDir over a list of paths: each path, then its children; for
\* a directory that cannot be listed the function is called a second time,
\* with the error of ReadDir, and the walk goes on when it returns nil
RECURSIVE WalkList(_, _, _, _, _)
WalkList(w, src, dst, list, mt) ==
    IF list = <<>> \/ w.status # "running" THEN w
    ELSE LET w1 == walkFn(w, src, dst, Head(list), mt)
             w2 == IF w1.status = "running" /\ Stat(Head(list)).isDir
                   THEN IF Stat(Head(list)).readable
                        THEN WalkList(w1, src, dst, ReadDir(Head(list)), mt)
                        ELSE walkFn(w1, src, dst, Head(list), mt)
                   ELSE w1
         IN  WalkList(w2, src, dst, Tail(list), mt)

WalkDir(w, src, dst, mt) == WalkList(w, src, dst, <<src>>, mt)

\* the files maps of at most MaxFiles entries
FilesMaps ==
    UNION {[S -> Dests] : S \in {T \in SUBSET Sources : Cardinality(T) <= MaxFiles}}

\* one iteration of `for src, dst := range files`: Go leaves the order of a
\* map range unspecified, so any source not yet visited may come next
LayerVisit(r) ==
    /\ layerStatus[r] = "running"
    /\ \E src \in remaining[r] :
         LET w == WalkDir([tw |-> tw[r], dirs |-> dirs[r], status |-> "running"],
                          src, files[src], mtime[r])
         IN  /\ tw' = [tw EXCEPT ![r] = w.tw]
             /\ dirs' = [dirs EXCEPT ![r] = w.dirs]
             /\ layerStatus' = [layerStatus EXCEPT ![r] = w.status]
             /\ remaining' = [remaining EXCEPT ![r] = @ \ {src}]
    /\ UNCHANGED <<files, mtime, hostVars, policyVars, runVars>>

\* tw.Close and tarball.LayerFromOpener once every source was visited
LayerClose(r) ==
    /\ layerStatus[r] = "running"
    /\ remaining[r] = {}
    /\ layerStatus' = [layerStatus EXCEPT ![r] = "ok"]
    /\ UNCHANGED <<files, mtime, remaining, tw, dirs, hostVars, policyVars, runVars>>

(***************************************************************************)
(* One run of fetchAndBuild.                                               *)
(***************************************************************************)
MaxEntries == 4

MaxRefs == 2

MaxGoPaths == 1

\* types.MediaType values
OCIManifestSchema1 == "application/vnd.oci.image.manifest.v1+json"

DockerManifestSchema2 == "application/vnd.docker.distribution.manifest.v2+json"

OCIImageIndex == "application/vnd.oci.image.index.v1+json"

DockerManifestList == "application/vnd.docker.distribution.manifest.list.v2+json"

DockerManifestSchema1 == "application/vnd.docker.distribution.manifest.v1+json"

OCILayer == "application/vnd.oci.image.layer.v1.tar+gzip"

DockerLayer == "application/vnd.docker.image.rootfs.diff.tar.gzip"

\* the absent platform of an index entry (id.Platform == nil) and the
\* platform of a config that names neither OS nor architecture
Nil == [OS |-> "<nil>", Architecture |-> "<nil>", Variant |-> NoVariant]

NoPlatform == Platform("", "", NoVariant)

\* a v1.Descriptor of the base index
Desc(digest, mt, platform, annots) ==
    [Digest |-> digest, MediaType |-> mt, URLs |-> {"https://mirror/" \o digest},
     Platform |-> platform, Annotations |-> annots]

\* the entries a base index is made of, in the order of the index
Catalog ==
    << Desc("d1", OCIManifestSchema1, Platform("linux", "amd64", NoVariant), {<<"base", "1">>}),
       Desc("d2", OCIManifestSchema1, Platform("linux", "arm64", NoVariant), {}),
       Desc("d3", DockerManifestSchema2, Platform("linux", "arm", <<"v", "7">>), {}),
       Desc("d4", OCIManifestSchema1, Platform("windows", "amd64", NoVariant), {}),
       Desc("d5", DockerManifestSchema2, Platform("linux", "amd64", <<"v", "2">>), {}),
       Desc("d6", OCIManifestSchema1, Platform("linux", "riscv64", NoVariant), {}),
       Desc("d7", OCIManifestSchema1, Nil, {}),
       Desc("d8", DockerManifestSchema1, Platform("linux", "386", NoVariant), {}) >>

\* the entries of Catalog whose position is in S, in the order of Catalog
RECURSIVE SubCatalog(_, _)
SubCatalog(k, S) ==
    IF k > Len(Catalog) THEN <<>>
    ELSE (IF k \in S THEN <<Catalog[k]>> ELSE <<>>) \o SubCatalog(k + 1, S)

\* what remote.Get can answer for the base reference
IndexBases ==
    {[fetch |-> "ok", MediaType |-> mt, config |-> NoPlatform, Manifests |-> SubCatalog(1, S)] :
        mt \in {OCIImageIndex, DockerManifestList},
        S \in {T \in SUBSET (1..Len(Catalog)) : Cardinality(T) <= MaxEntries}}

ImagePlatforms ==
    {Platform("linux", "amd64", NoVariant), Platform("linux", "arm64", NoVariant),
     Platform("linux", "arm", <<"v", "7">>), Platform("linux", "arm", <<"7">>),
     Platform("linux", "arm", <<"v", "6">>), Platform("linux", "arm", NoVariant),
     Platform("linux", "arm", <<"v">>), Platform("linux", "arm", <<"v", "1", "0">>),
     Platform("linux", "arm", <<"v", "x">>),
     Platform("windows", "amd64", NoVariant), Platform("linux", "riscv64", NoVariant),
     NoPlatform}

ImageBases ==
    {[fetch |-> "ok", MediaType |-> mt, config |-> p, Manifests |-> <<>>] :
        mt \in {OCIManifestSchema1, DockerManifestSchema2}, p \in ImagePlatforms}

OtherBases ==
    {[fetch |-> "err", MediaType |-> "", config |-> NoPlatform, Manifests |-> <<>>],
     [fetch |-> "ok", MediaType |-> DockerManifestSchema1, config |-> NoPlatform, Manifests |-> <<>>]}

Bases == IndexBases \cup ImageBases \cup OtherBases

\* the buildParams main can hand over: main requires repos and tags (so at
\* least one image reference) and at least one of gopaths and files
BuildParams ==
    {b \in {[target |-> t, publish |-> pub, outPath |-> o, imageRefs |-> [k \in 1..MaxRefs |-> k],
             annotations |-> a, args |-> cmd, goPaths |-> gps, staticFiles |-> sf] :
                t \in Targets, pub \in BOOLEAN, o \in {"", "out"},
                a \in {{}, {<<"key", "val">>}}, cmd \in {<<>>, <<"cmd">>},
                gps \in {{}, 1..MaxGoPaths}, sf \in {{}, {"f"}}} :
        b.goPaths # {} \/ b.staticFiles # {}}

\* the hosts fetchAndBuild is run on; runtime.GOOS and runtime.GOARCH are
\* read by canRunLocal only, that is under the local target
RunHosts == {<<"linux", "amd64">>, <<"darwin", "arm64">>}

\* results of fetchAndBuild that are not a verifyPlatform error
ErrFetch == "fetch error"

ErrInterpret == "failed to interpret base as index or image"

ErrUnknownPlatform == "unknown platform for image"

ErrMkdirTemp == "mkdirtemp error"

ErrVariant == "unexpected varient"

ErrCompile == "compile error"

ErrMediaType == "unknown base image media type"

ErrLayer == "layer error"

ErrMultiLocal == "cannot build multi-platform images for local target"

ErrDeliver == "delivery error"

ErrNoCLI == "no suitable docker CLI-compatible binary found"

Panic == "panic"

\* an image: the base it extends, the layer appended to it, the manifest
\* annotations and the default invocation of its config
NoImage ==
    [base |-> "", MediaType |-> "", layer |-> "", Annotations |-> {}, Cmd |-> <<>>]

NoIndex == [MediaType |-> "", Manifests |-> <<>>, Annotations |-> {}]

NoOut ==
    [kind |-> "none", img |-> NoImage, idx |-> NoIndex, next |-> 1,
     logged |-> [img |-> NoImage, idx |-> NoIndex]]

NoCur ==
    [id |-> "", platform |-> NoPlatform, baseMT |-> "", desc |-> Desc("", "", NoPlatform, {}),
     todo |-> {}, files |-> {}, env |-> <<>>, ret |-> "", img |-> NoImage]

\* mutate.Annotations: the given annotations are laid over the existing ones
Annotate(existing, given) ==
    {kv \in existing : \A n \in given : n[1] # kv[1]} \cup given

\* a trace entry: a compiler invocation, a log line or a delivery
Event(ev, tag, ref, kind) == [ev |-> ev, tag |-> tag, ref |-> ref, kind |-> kind]

\* goarm(platform): the GOARM value and the error
Digits == {"0", "1", "2", "3", "4", "5", "6", "7", "8", "9"}

\* goarm with the length test of line 450 only, without the test of the
\* two characters of line 453
goarmLenOnly(platform) ==
    LET v == platform.Variant
    IN  IF platform.Architecture # "arm" THEN [v |-> "", err |-> "not arm"]
        ELSE IF Len(v) # 2 THEN [v |-> "", err |-> ErrVariant]
        ELSE [v |-> v[2], err |-> "nil"]

goarm(platform) ==
    LET v == platform.Variant
    IN  IF platform.Architecture # "arm" THEN [v |-> "", err |-> "not arm"]
        ELSE IF Len(v) # 2 THEN [v |-> "", err |-> ErrVariant]
        ELSE IF v[1] # "v" \/ v[2] \notin Digits THEN [v |-> "", err |-> ErrVariant]
        ELSE [v |-> v[2], err |-> "nil"]

\* an entry of the compiler environment: a string "name=value", or a string
\* without the separator
EnvSetting(name, value) == [name |-> name, sep |-> TRUE, value |-> value]

EnvRaw(str) == [name |-> str, sep |-> FALSE, value |-> ""]

\* fetchAndBuild returns: the run is over
Return(err) ==
    /\ result' = err
    /\ pc' = "done"

\* lines 241-317: fetchBaseImage and the switch on baseDesc.MediaType
Fetch ==
    /\ pc = "fetch"
    /\ IF base.fetch = "err" THEN Return(ErrFetch) /\ i' = i
       ELSE IF base.MediaType \in {OCIManifestSchema1, DockerManifestSchema2}
            THEN pc' = "image" /\ UNCHANGED <<result, i>>
       ELSE IF base.MediaType \in {OCIImageIndex, DockerManifestList}
            THEN pc' = "loop" /\ i' = 1 /\ UNCHANGED result
       ELSE Return(ErrInterpret) /\ i' = i
    /\ UNCHANGED <<bp, base, adds, cur, out, trace, tmpDirs, load, hostVars, policyVars, layerVars>>

\* lines 250-275: the base is an image; its platform comes from its config
ImageBase ==
    /\ pc = "image"
    /\ LET config == base.config
           p == Platform(config.OS, config.Architecture, config.Variant)
           err == verifyPlatform(p, bp.target, hostOS, hostArch)
       IN  IF config.Architecture = "" \/ config.OS = ""
           THEN Return(ErrUnknownPlatform) /\ cur' = cur
           ELSE IF err # "nil" THEN Return(err) /\ cur' = cur
           ELSE /\ pc' = "create"
                /\ cur' = [NoCur EXCEPT !.id = "base", !.platform = p,
                                        !.baseMT = base.MediaType, !.ret = "single"]
                /\ UNCHANGED result
    /\ UNCHANGED <<bp, base, i, adds, out, trace, tmpDirs, load, hostVars, policyVars, layerVars>>

\* lines 320-324: an index entry without platform; the log prefix of line
\* 321 reads id.Platform.OS before line 322 tests id.Platform for nil
LoopNilPlatform ==
    /\ pc = "loop"
    /\ i <= Len(base.Manifests)
    /\ base.Manifests[i].Platform = Nil
    /\ Return(Panic)
    /\ UNCHANGED <<bp, base, i, adds, cur, out, trace, tmpDirs, load, hostVars, policyVars, layerVars>>

\* a loop that is left, instead of continued, at an entry it skips
LoopSkipBreak ==
    /\ pc = "loop"
    /\ i <= Len(base.Manifests)
    /\ LET id == base.Manifests[i]
           err == verifyPlatform(id.Platform, bp.target, hostOS, hostArch)
       IN  /\ id.Platform # Nil
           /\ err # "nil"
           /\ trace' = Append(trace, Event("skip", id.Digest, 0, err))
           /\ i' = Len(base.Manifests) + 1
           /\ UNCHANGED <<pc, result>>
    /\ UNCHANGED <<bp, base, adds, cur, out, tmpDirs, load, hostVars, policyVars, layerVars>>

\* a loop that returns verifyPlatform's error instead of skipping the entry
LoopSkipFatal ==
    /\ pc = "loop"
    /\ i <= Len(base.Manifests)
    /\ LET id == base.Manifests[i]
           err == verifyPlatform(id.Platform, bp.target, hostOS, hostArch)
       IN  /\ id.Platform # Nil
           /\ err # "nil"
           /\ IF err = ErrNotRequired
              THEN /\ trace' = Append(trace, Event("skip", id.Digest, 0, err))
                   /\ i' = i + 1
                   /\ UNCHANGED <<pc, result>>
              ELSE Return(err) /\ UNCHANGED <<trace, i>>
    /\ UNCHANGED <<bp, base, adds, cur, out, tmpDirs, load, hostVars, policyVars, layerVars>>

\* lines 325-328: verifyPlatform fails: log "skipping" and continue
LoopSkip ==
    /\ pc = "loop"
    /\ i <= Len(base.Manifests)
    /\ LET id == base.Manifests[i]
           err == verifyPlatform(id.Platform, bp.target, hostOS, hostArch)
       IN  /\ id.Platform # Nil
           /\ err # "nil"
           /\ trace' = Append(trace, Event("skip", id.Digest, 0, err))
           /\ i' = i + 1
           /\ UNCHANGED <<pc, result>>
    /\ UNCHANGED <<bp, base, adds, cur, out, tmpDirs, load, hostVars, policyVars, layerVars>>

\* lines 325-335: the entry passes verifyPlatform; fetch its image and call
\* createImageForBase
LoopBuild ==
    /\ pc = "loop"
    /\ i <= Len(base.Manifests)
    /\ LET id == base.Manifests[i]
       IN  /\ id.Platform # Nil
           /\ verifyPlatform(id.Platform, bp.target, hostOS, hostArch) = "nil"
           /\ cur' = [NoCur EXCEPT !.id = id.Digest, !.platform = id.Platform,
                                   !.baseMT = id.MediaType, !.desc = id, !.ret = "index"]
    /\ pc' = "create"
    /\ UNCHANGED <<bp, base, i, adds, out, result, trace, tmpDirs, load, hostVars, policyVars, layerVars>>

\* lines 459-482 of createImageForBase: the temporary directory and the
\* compiler environment; the deferred RemoveAll runs on the early return
CreateBegin ==
    /\ pc = "create"
    /\ \E mkdirOK \in BOOLEAN :
         LET env == << EnvSetting("CGO_ENABLED", "0"),
                       EnvSetting("GOOS", cur.platform.OS),
                       EnvSetting("GOARCH", cur.platform.Architecture) >>
             arm == goarm(cur.platform)
         IN  IF ~mkdirOK THEN Return(ErrMkdirTemp) /\ UNCHANGED <<cur, tmpDirs>>
             ELSE IF cur.platform.Architecture = "arm" /\ arm.err # "nil"
                  THEN Return(arm.err) /\ UNCHANGED <<cur, tmpDirs>>
             ELSE /\ cur' = [cur EXCEPT
                               !.env = IF cur.platform.Architecture = "arm"
                                       THEN Append(env, EnvRaw(arm.v)) ELSE env,
                               !.files = bp.staticFiles,
                               !.todo = bp.goPaths]
                  /\ tmpDirs' = tmpDirs \cup {cur.id}
                  /\ pc' = "compile"
                  /\ UNCHANGED result
    /\ UNCHANGED <<bp, base, i, adds, out, trace, load, hostVars, policyVars, layerVars>>

\* lines 485-493 without the return of line 491: a failed compilation is
\* passed over
CompileIgnoreFail ==
    /\ pc = "compile"
    /\ \E gp \in cur.todo, ok \in BOOLEAN :
         /\ trace' = Append(trace, Event("compile", cur.id, 0, IF ok THEN "ok" ELSE "fail"))
         /\ cur' = [cur EXCEPT !.todo = @ \ {gp}]
         /\ UNCHANGED <<pc, result, tmpDirs>>
    /\ UNCHANGED <<bp, base, i, adds, out, load, hostVars, policyVars, layerVars>>

\* lines 485-493 without the deferred RemoveAll of line 464 on the error
\* return of line 491
CompileLeak ==
    /\ pc = "compile"
    /\ \E gp \in cur.todo, ok \in BOOLEAN :
         /\ trace' = Append(trace, Event("compile", cur.id, 0, IF ok THEN "ok" ELSE "fail"))
         /\ IF ok
            THEN /\ cur' = [cur EXCEPT !.todo = @ \ {gp}]
                 /\ UNCHANGED <<pc, result, tmpDirs>>
            ELSE /\ Return(ErrCompile)
                 /\ cur' = cur
                 /\ UNCHANGED tmpDirs
    /\ UNCHANGED <<bp, base, i, adds, out, load, hostVars, policyVars, layerVars>>

\* lines 485-493: one iteration of the range over bp.goPaths, that is one
\* run of compileGoBinary, which the compiler may fail
Compile ==
    /\ pc = "compile"
    /\ \E gp \in cur.todo, ok \in BOOLEAN :
         /\ trace' = Append(trace, Event("compile", cur.id, 0, IF ok THEN "ok" ELSE "fail"))
         /\ IF ok
            THEN /\ cur' = [cur EXCEPT !.todo = @ \ {gp}]
                 /\ UNCHANGED <<pc, result, tmpDirs>>
            ELSE /\ Return(ErrCompile)
                 /\ tmpDirs' = tmpDirs \ {cur.id}
                 /\ cur' = cur
    /\ UNCHANGED <<bp, base, i, adds, out, load, hostVars, policyVars, layerVars>>

\* lines 499-507 with a default case that falls back to a Docker layer
LayerMediaTypeDefaultDocker(mt) ==
    IF mt = OCIManifestSchema1 THEN OCILayer ELSE DockerLayer

\* lines 499-507: the media type of the layer follows that of the base
\* manifest; "" stands for the default case, which returns an error
LayerMediaType(mt) ==
    CASE mt = OCIManifestSchema1 -> OCILayer
      [] mt = DockerManifestSchema2 -> DockerLayer
      [] OTHER -> ""


\* lines 494-513: the layer media type, layerFromFiles (which returns an
\* error or panics when a static file cannot be read) and AppendLayers
CreateFinish ==
    /\ pc = "compile"
    /\ cur.todo = {}
    /\ tmpDirs' = tmpDirs \ {cur.id}
    /\ IF LayerMediaType(cur.baseMT) = ""
       THEN Return(ErrMediaType) /\ cur' = cur
       ELSE \E layer \in {"ok"} \cup (IF cur.files = {} THEN {} ELSE {ErrLayer, Panic}) :
              IF layer # "ok" THEN Return(layer) /\ cur' = cur
              ELSE /\ cur' = [cur EXCEPT !.img =
                                [base |-> cur.id, MediaType |-> cur.baseMT,
                                 layer |-> LayerMediaType(cur.baseMT),
                                 Annotations |-> {}, Cmd |-> <<"base">>]]
                   /\ pc' = IF cur.ret = "single" THEN "single" ELSE "add"
                   /\ UNCHANGED result
    /\ UNCHANGED <<bp, base, i, adds, out, trace, load, hostVars, policyVars, layerVars>>

\* lines 340-363: annotations, the command override, the digest and the
\* addendum of the image just built
LoopAdd ==
    /\ pc = "add"
    /\ LET id == cur.desc
           img1 == [cur.img EXCEPT !.Annotations = Annotate(@, bp.annotations)]
           img2 == IF Len(bp.args) > 0 THEN [img1 EXCEPT !.Cmd = bp.args] ELSE img1
       IN  /\ adds' = Append(adds, [Add |-> img2,
                                    Descriptor |-> [MediaType |-> id.MediaType,
                                                    URLs |-> id.URLs,
                                                    Platform |-> id.Platform,
                                                    Annotations |-> {}]])
           /\ trace' = Append(trace, Event("digest", id.Digest, 0, "image"))
    /\ i' = i + 1
    /\ pc' = "loop"
    /\ UNCHANGED <<bp, base, cur, out, result, tmpDirs, load, hostVars, policyVars, layerVars>>

\* lines 280-303: the image built from an image base is annotated when it
\* is published, and only then
SingleOut ==
    /\ pc = "single"
    /\ out' = [NoOut EXCEPT
                 !.kind = "image",
                 !.img = IF bp.publish
                         THEN [cur.img EXCEPT !.Annotations = Annotate(@, bp.annotations)]
                         ELSE cur.img]
    /\ pc' = "deliver"
    /\ UNCHANGED <<bp, base, i, adds, cur, result, trace, tmpDirs, load, hostVars, policyVars, layerVars>>

\* the digest of a manifest stands for its whole content
Digest(manifest) == manifest

\* a switch on len(adds) without its case 0
AssembleCaseNoEmpty(n, target) ==
    IF n = 1 THEN "image"
    ELSE IF target = "local" THEN "error"
    ELSE "index"

\* a switch on len(adds) without its case 1
AssembleCaseAlwaysIndex(n, target) ==
    IF n = 0 THEN "none"
    ELSE IF target = "local" /\ n > 1 THEN "error"
    ELSE "index"

\* a switch on len(adds) that is not followed by the test of the target
AssembleCaseNoLocalTest(n, target) ==
    IF n = 0 THEN "none"
    ELSE IF n = 1 THEN "image"
    ELSE "index"

\* lines 365-403: the switch on len(adds) and the test of the local target
AssembleCase(n, target) ==
    IF n = 0 THEN "none"
    ELSE IF n = 1 THEN "image"
    ELSE IF target = "local" THEN "error"
    ELSE "index"

\* AppendManifests on empty.Index, whose media type is the OCI image index
NewIndexOCI(mt, addenda) ==
    [MediaType |-> OCIImageIndex, Manifests |-> addenda, Annotations |-> {}]

\* line 407 with the addenda appended last to first
NewIndexReversed(mt, addenda) ==
    [MediaType |-> mt,
     Manifests |-> [k \in 1..Len(addenda) |-> addenda[Len(addenda) + 1 - k]],
     Annotations |-> {}]

\* line 407: mutate.AppendManifests(mutate.IndexMediaType(empty.Index, mt), adds...)
NewIndex(mt, addenda) ==
    [MediaType |-> mt, Manifests |-> addenda, Annotations |-> {}]

\* lines 365-416: the loop is over; the switch on len(adds), the test of
\* the local target and the new index with its digest and annotations
Assemble ==
    /\ pc = "loop"
    /\ i > Len(base.Manifests)
    /\ LET case == AssembleCase(Len(adds), bp.target)
           idx == NewIndex(base.MediaType, adds)
       IN  IF case = "none"
           THEN /\ Return("nil")
                /\ trace' = Append(trace, Event("log", "", 0, "no images"))
                /\ out' = out
           ELSE IF case = "image"
                THEN /\ out' = [NoOut EXCEPT !.kind = "image", !.img = adds[1].Add,
                                             !.logged.img = Digest(adds[1].Add)]
                     /\ trace' = Append(trace, Event("digest", "", 0, "image"))
                     /\ pc' = "deliver"
                     /\ UNCHANGED result
           ELSE IF case = "error"
                THEN Return(ErrMultiLocal) /\ UNCHANGED <<out, trace>>
           ELSE /\ out' = [NoOut EXCEPT
                             !.kind = "index",
                             !.idx = [idx EXCEPT !.Annotations = Annotate(@, bp.annotations)],
                             !.logged.idx = Digest(idx)]
                /\ trace' = Append(trace, Event("digest", "", 0, "index"))
                /\ pc' = "deliver"
                /\ UNCHANGED result
    /\ UNCHANGED <<bp, base, i, adds, cur, tmpDirs, load, hostVars, policyVars, layerVars>>

\* the loops over bp.imageRefs end after the last reference
NextRef ==
    IF out.next = Len(bp.imageRefs)
    THEN Return("nil") /\ out' = out
    ELSE out' = [out EXCEPT !.next = @ + 1] /\ UNCHANGED <<pc, result>>

\* lines 285-294 without the continue of line 289: an image is pushed under
\* the local target as well
PushNoContinue ==
    /\ pc = "deliver"
    /\ bp.publish
    /\ \E ok \in BOOLEAN :
         /\ trace' = Append(trace, Event("push", IF ok THEN "ok" ELSE "fail",
                                         bp.imageRefs[out.next], out.kind))
         /\ IF ok THEN NextRef ELSE Return(ErrDeliver) /\ out' = out
    /\ UNCHANGED <<bp, base, i, adds, cur, tmpDirs, load, hostVars, policyVars, layerVars>>

\* lines 291-294, 387-390, 420-425: remote.Write or remote.WriteIndex for one
\* reference; the registry may refuse
Push ==
    /\ pc = "deliver"
    /\ bp.publish
    /\ ~(out.kind = "image" /\ bp.target = "local")
    /\ \E ok \in BOOLEAN :
         /\ trace' = Append(trace, Event("push", IF ok THEN "ok" ELSE "fail",
                                         bp.imageRefs[out.next], out.kind))
         /\ IF ok THEN NextRef ELSE Return(ErrDeliver) /\ out' = out
    /\ UNCHANGED <<bp, base, i, adds, cur, tmpDirs, load, hostVars, policyVars, layerVars>>

\* lines 641-647 with podman looked for before docker
CLIsPodmanFirst == <<"podman", "docker", "nerdctl">>

\* the binaries loadLocalImage looks for, in the order it looks for them
CLIs == <<"docker", "podman", "nerdctl">>

\* what the latest call of loadLocalImage did: the outcome of daemon.Write,
\* the calls of exec.LookPath with their answers and the commands it ran
NoLoad == [daemon |-> "none", probes |-> <<>>, ran |-> <<>>]

\* the calls of exec.LookPath in lines 641-649 and what they can answer: the
\* binaries are asked for in the order of CLIs until one is found; n is the
\* position of that one, 0 when none is found
LookPaths(n) ==
    [k \in 1..(IF n = 0 THEN Len(CLIs) ELSE n) |-> [bin |-> CLIs[k], found |-> k = n]]

\* lines 285-290, 381-386 and loadLocalImage: daemon.Write, and when it
\* fails the first CLI binary that exec.LookPath finds
LoadLocal ==
    /\ pc = "deliver"
    /\ bp.publish
    /\ out.kind = "image"
    /\ bp.target = "local"
    /\ \E daemonOK \in BOOLEAN :
         LET r == bp.imageRefs[out.next]
         IN  IF daemonOK
             THEN /\ load' = [NoLoad EXCEPT !.daemon = "ok"]
                  /\ trace' = Append(trace, Event("load", "ok", r, "image"))
                  /\ NextRef
             ELSE \E n \in 0..Len(CLIs), cmdOK \in BOOLEAN :
                    IF n = 0
                    THEN /\ load' = [daemon |-> "fail", probes |-> LookPaths(n), ran |-> <<>>]
                         /\ trace' = Append(trace, Event("load", "fail", r, "image"))
                         /\ Return(ErrNoCLI)
                         /\ out' = out
                    ELSE /\ load' = [daemon |-> "fail", probes |-> LookPaths(n),
                                     ran |-> <<CLIs[n]>>]
                         /\ trace' = Append(trace, Event("load", IF cmdOK THEN "ok" ELSE "fail",
                                                         r, "image"))
                         /\ IF cmdOK THEN NextRef ELSE Return(ErrDeliver) /\ out' = out
    /\ UNCHANGED <<bp, base, i, adds, cur, tmpDirs, hostVars, policyVars, layerVars>>

\* lines 298-299, 394-395, 429-438: writeImageToFile for an image,
\* createOutDirectory and layout.Write for an index
WriteOut ==
    /\ pc = "deliver"
    /\ ~bp.publish
    /\ bp.outPath # ""
    /\ \E dirOK \in BOOLEAN, writeOK \in BOOLEAN :
         IF ~dirOK THEN Return(ErrDeliver) /\ trace' = trace
         ELSE /\ trace' = Append(trace, Event("write", IF writeOK THEN "ok" ELSE "fail", 0,
                                              IF out.kind = "image" THEN "image.tar" ELSE "layout"))
              /\ Return(IF writeOK THEN "nil" ELSE ErrDeliver)
    /\ UNCHANGED <<bp, base, i, adds, cur, out, tmpDirs, load, hostVars, policyVars, layerVars>>

\* lines 301-303, 397-399, 440-442: "not pushing or writing to file"
NoDelivery ==
    /\ pc = "deliver"
    /\ ~bp.publish
    /\ bp.outPath = ""
    /\ trace' = Append(trace, Event("log", "", 0, "not pushing or writing to file"))
    /\ Return("nil")
    /\ UNCHANGED <<bp, base, i, adds, cur, out, tmpDirs, load, hostVars, policyVars, layerVars>>

(***************************************************************************)
(* The three specifications.                                               *)
(***************************************************************************)
PolicyIdle ==
    /\ polPlatform = NoPlatform
    /\ polTarget = ""
    /\ polResult = "unset"

LayerIdle ==
    /\ files = <<>>
    /\ mtime = [r \in Runs |-> 1]
    /\ remaining = [r \in Runs |-> {}]
    /\ tw = [r \in Runs |-> <<>>]
    /\ dirs = [r \in Runs |-> {}]
    /\ layerStatus = [r \in Runs |-> "idle"]

RunIdle ==
    /\ bp = CHOOSE b \in BuildParams : TRUE
    /\ base = CHOOSE b \in OtherBases : TRUE
    /\ pc = "idle"
    /\ i = 0
    /\ adds = <<>>
    /\ cur = NoCur
    /\ out = NoOut
    /\ result = "running"
    /\ trace = <<>>
    /\ tmpDirs = {}
    /\ load = NoLoad

\* fetchAndBuild is about to be called with any buildParams on any base
Init ==
    /\ bp \in BuildParams
    /\ base \in Bases
    /\ \E h \in RunHosts :
         /\ bp.target # "local" => h = <<"linux", "amd64">>
         /\ hostOS = h[1]
         /\ hostArch = h[2]
    /\ pc = "fetch"
    /\ i = 0
    /\ adds = <<>>
    /\ cur = NoCur
    /\ out = NoOut
    /\ result = "running"
    /\ trace = <<>>
    /\ tmpDirs = {}
    /\ load = NoLoad
    /\ PolicyIdle
    /\ LayerIdle

Next ==
    \/ Fetch
    \/ ImageBase
    \/ LoopNilPlatform
    \/ LoopSkip
    \/ LoopBuild
    \/ CreateBegin
    \/ Compile
    \/ CreateFinish
    \/ LoopAdd
    \/ SingleOut
    \/ Assemble
    \/ Push
    \/ LoadLocal
    \/ WriteOut
    \/ NoDelivery

Spec == Init /\ [][Next]_vars

\* verifyPlatform is about to be applied to a platform, a target and a host
PolicyInit ==
    /\ polPlatform \in {Platform(os, arch, NoVariant) : os \in OSes, arch \in Archs}
    /\ polTarget \in Targets
    /\ hostOS \in OSes
    /\ hostArch \in Archs
    /\ polResult = "unset"
    /\ LayerIdle
    /\ RunIdle

PolicyVerify ==
    /\ polResult = "unset"
    /\ polResult' = verifyPlatform(polPlatform, polTarget, hostOS, hostArch)
    /\ UNCHANGED <<polPlatform, polTarget, hostVars, layerVars, runVars>>

PolicyNext == PolicyVerify

SpecPolicy == PolicyInit /\ [][PolicyNext]_vars

\* layerFromFiles is about to be called twice with the same files map, on
\* source files of the same content whose modification times may differ
LayerInit ==
    /\ files \in FilesMaps
    /\ mtime \in [Runs -> MTimes]
    /\ remaining = [r \in Runs |-> DOMAIN files]
    /\ tw = [r \in Runs |-> <<>>]
    /\ dirs = [r \in Runs |-> {}]
    /\ layerStatus = [r \in Runs |-> "running"]
    /\ hostOS = "linux"
    /\ hostArch = "amd64"
    /\ PolicyIdle
    /\ RunIdle

LayerNext == \E r \in Runs : LayerVisit(r) \/ LayerClose(r)

SpecLayer == LayerInit /\ [][LayerNext]_vars

(***************************************************************************)
(* What the claims speak of.                                               *)
(***************************************************************************)
\* the base was fetched and is an index, or an image
IsIndexBase == base.fetch = "ok" /\ base.MediaType \in {OCIImageIndex, DockerManifestList}

IsImageBase == base.fetch = "ok" /\ base.MediaType \in {OCIManifestSchema1, DockerManifestSchema2}

\* the decision of the platform policy in this run
Decision(p) == verifyPlatform(p, bp.target, hostOS, hostArch)

Builds(id) == id.Platform # Nil /\ Decision(id.Platform) = "nil"

PolicyErrors == {ErrUnsupportedOS, ErrNotRequired, ErrUnsupportedArch}

RejectErrors == {ErrUnsupportedOS, ErrUnsupportedArch}

\* the loop over im.Manifests is over
LoopOver == pc \in {"loop", "deliver", "done"} /\ i > Len(base.Manifests)

\* compiler invocations and delivery actions of the run so far
IsCompile(e) == e.ev = "compile"

IsDelivery(e) == e.ev \in {"push", "load", "write"}

IsIndexDelivery(e) == IsDelivery(e) /\ e.kind \in {"index", "layout"}

Compiles == SelectSeq(trace, IsCompile)

Deliveries == SelectSeq(trace, IsDelivery)

\* the digests of the entries among the first n that the policy lets build,
\* and of those it does not, in the order of the index
RECURSIVE DigestsWhere(_, _, _)
DigestsWhere(seq, n, builds) ==
    IF n = 0 THEN <<>>
    ELSE DigestsWhere(seq, n - 1, builds)
         \o (IF Builds(seq[n]) = builds THEN <<seq[n].Digest>> ELSE <<>>)

AddsDigests == [k \in 1..Len(adds) |-> adds[k].Add.base]

IsSkip(e) == e.ev = "skip"

SkipDigests == LET sk == SelectSeq(trace, IsSkip) IN [k \in 1..Len(sk) |-> sk[k].tag]

(***************************************************************************)
(* C1 (SpecLayer): two executions of layerFromFiles over the same files    *)
(* map, whose sources have the same content, emit the same sequence of tar *)
(* entries, whatever the modification times of the sources and whatever    *)
(* the order in which the files map is ranged over (the destination paths  *)
(* of the layer being distinct, so that they map to one content each).     *)
(***************************************************************************)
C1_LayerDeterministic ==
    (/\ layerStatus[1] = "ok" /\ layerStatus[2] = "ok"
     /\ \A r \in Runs : \A j, k \in 1..Len(tw[r]) : tw[r][j].Name = tw[r][k].Name => j = k)
    => tw[1] = tw[2]

(***************************************************************************)
(* C2 (SpecPolicy): the result of verifyPlatform is the first rule that    *)
(* applies: (1) OS other than linux: unsupported OS; (2) local and not     *)
(* runnable on the host: not required; (3) flyio and not amd64: not        *)
(* required, so flyio builds iff linux/amd64; (4) architecture outside     *)
(* {arm, arm64, amd64, 386}: unsupported arch; (5) otherwise build.        *)
(***************************************************************************)
C2_PolicyRules ==
    polResult # "unset" =>
        LET p == polPlatform
            runnable == \/ hostOS = "linux" /\ p.Architecture = hostArch
                        \/ hostOS = "darwin" /\ p.Architecture = "amd64"
            rule1 == p.OS # "linux"
            rule2 == polTarget = "local" /\ ~runnable
            rule3 == polTarget = "flyio" /\ p.Architecture # "amd64"
            rule4 == p.Architecture \notin {"arm", "arm64", "amd64", "386"}
        IN  /\ rule1 => polResult = ErrUnsupportedOS
            /\ ~rule1 /\ rule2 => polResult = ErrNotRequired
            /\ ~rule1 /\ ~rule2 /\ rule3 => polResult = ErrNotRequired
            /\ ~rule1 /\ ~rule2 /\ ~rule3 /\ rule4 => polResult = ErrUnsupportedArch
            /\ ~rule1 /\ ~rule2 /\ ~rule3 /\ ~rule4 => polResult = "nil"
            /\ polTarget = "flyio" =>
                 (polResult = "nil" <=> p.OS = "linux" /\ p.Architecture = "amd64")

\* a platform the local target can run, of an architecture that is not built
C2_Witness ==
    /\ polResult = ErrUnsupportedArch
    /\ polTarget = "local"
    /\ polPlatform.Architecture = "riscv64"

(***************************************************************************)
(* C3 (Spec): the base is an index and exactly one entry was built when    *)
(* the loop is over: the output is an image, no index is built, and every  *)
(* delivery is that of an image (push, load or image.tar).                 *)
(***************************************************************************)
C3_OneSurvivorPlainImage ==
    (IsIndexBase /\ LoopOver /\ Len(adds) = 1) =>
        /\ out.kind \in {"none", "image"}
        /\ out.idx = NoIndex
        /\ \A k \in 1..Len(trace) :
             /\ ~IsIndexDelivery(trace[k])
             /\ ~(trace[k].ev = "digest" /\ trace[k].kind = "index")

\* one entry of several survived and was pushed as an image
C3_Witness ==
    /\ IsIndexBase /\ pc = "done" /\ result = "nil"
    /\ Len(base.Manifests) > 1 /\ Len(adds) = 1
    /\ \E k \in 1..Len(trace) : trace[k].ev = "push" /\ trace[k].kind = "image"

(***************************************************************************)
(* C4 (Spec): the base is an index and the policy lets none of its entries *)
(* build: the run compiles nothing and delivers nothing, and it ends       *)
(* without error, whatever publish and out are.                            *)
(***************************************************************************)
C4_NoSurvivorNoAction ==
    (IsIndexBase /\ \A k \in 1..Len(base.Manifests) :
                       /\ base.Manifests[k].Platform # Nil
                       /\ ~Builds(base.Manifests[k])) =>
        /\ Compiles = <<>>
        /\ Deliveries = <<>>
        /\ out = NoOut
        /\ tmpDirs = {}
        /\ pc = "done" => result = "nil"

\* a run over two or more entries, none of which builds, asked to publish
C4_Witness ==
    /\ IsIndexBase /\ pc = "done" /\ result = "nil"
    /\ Len(base.Manifests) > 1
    /\ \A k \in 1..Len(base.Manifests) :
         base.Manifests[k].Platform # Nil /\ ~Builds(base.Manifests[k])
    /\ bp.publish /\ bp.outPath # ""

(***************************************************************************)
(* C5 (Spec): over an index, an entry the policy does not let build never  *)
(* ends the run: it is logged and left out, the entries after it are still *)
(* processed, and the images collected are exactly those of the entries    *)
(* the policy lets build, in their order.  For linux/amd64, linux/arm64,   *)
(* linux/arm v7, windows/amd64 under flyio only linux/amd64 is collected   *)
(* and the output is an image.                                             *)
(***************************************************************************)
C5_SkipNeverAborts ==
    IsIndexBase =>
        /\ pc = "done" => result \notin PolicyErrors
        /\ pc = "loop" =>
             LET n == i - 1
             IN  /\ AddsDigests = DigestsWhere(base.Manifests, n, TRUE)
                 /\ SkipDigests = DigestsWhere(base.Manifests, n, FALSE)
        /\ (bp.target = "flyio" /\ base.Manifests = SubCatalog(1, {1, 2, 3, 4})) =>
             /\ LoopOver => AddsDigests = <<"d1">>
             /\ out.kind # "index"

\* the four entries under flyio: three are left out, one image is delivered
C5_Witness ==
    /\ IsIndexBase /\ bp.target = "flyio"
    /\ base.Manifests = SubCatalog(1, {1, 2, 3, 4})
    /\ pc = "done" /\ result = "nil"
    /\ SkipDigests = <<"d2", "d3", "d4">>
    /\ out.kind = "image" /\ out.img.base = "d1"
    /\ Deliveries # <<>>

(***************************************************************************)
(* C6 as stated (Spec): over an index, a reject of the policy (OS other    *)
(* than linux, architecture outside {arm, arm64, amd64, 386}) for an entry *)
(* that was processed has ended the run with that error.                   *)
(***************************************************************************)
C6_RejectIsFatal ==
    IsIndexBase =>
        \A k \in 1..Len(base.Manifests) :
            (k < i /\ base.Manifests[k].Platform # Nil
                   /\ Decision(base.Manifests[k].Platform) \in RejectErrors) =>
                (pc = "done" /\ result = Decision(base.Manifests[k].Platform))

(***************************************************************************)
(* C6 as amended (Spec): over an index, a reject of the policy for an      *)
(* entry is handled as a skip is: the step that meets the entry logs it,   *)
(* collects nothing and goes on to the next entry, and the run is not      *)
(* ended by it.                                                            *)
(***************************************************************************)
C6_RejectIsSkipped ==
    [][(/\ IsIndexBase
        /\ pc = "loop"
        /\ i <= Len(base.Manifests)
        /\ base.Manifests[i].Platform # Nil
        /\ Decision(base.Manifests[i].Platform) \in RejectErrors)
       => (/\ pc' = "loop"
           /\ i' = i + 1
           /\ result' = "running"
           /\ adds' = adds
           /\ trace' = Append(trace, Event("skip", base.Manifests[i].Digest, 0,
                                           Decision(base.Manifests[i].Platform))))]_vars

\* a run that passed over a rejected entry and went on to deliver an image
C6_Witness ==
    /\ IsIndexBase /\ pc = "done" /\ result = "nil"
    /\ \E k \in 1..Len(trace) : trace[k].ev = "skip" /\ trace[k].kind \in RejectErrors
    /\ Len(adds) > 0
    /\ Deliveries # <<>>

(***************************************************************************)
(* C7 (Spec): the base is an image: the run ends with a platform error     *)
(* exactly when the policy rejects the platform (and then nothing is       *)
(* compiled or delivered); a skip (not required for the target) is not an  *)
(* error.                                                                  *)
(***************************************************************************)
C7_SingleSkipIsNoError ==
    (IsImageBase /\ pc = "done" /\ base.config.OS # "" /\ base.config.Architecture # "") =>
        /\ result \in PolicyErrors <=> Decision(base.config) \in RejectErrors
        /\ Decision(base.config) \in RejectErrors => Compiles = <<>> /\ Deliveries = <<>>

(***************************************************************************)
(* C8 (Spec): under the local target, once more than one image of a base   *)
(* index was collected nothing is loaded, pushed or written, the run does  *)
(* not end without error, and when the loop is over it ends with the       *)
(* multi-platform error, whatever publish and out are.                     *)
(***************************************************************************)
C8_LocalMultiIsFatal ==
    (IsIndexBase /\ bp.target = "local" /\ Len(adds) > 1) =>
        /\ Deliveries = <<>>
        /\ out = NoOut
        /\ pc = "done" => result # "nil"
        /\ (pc = "done" /\ i > Len(base.Manifests)) => result = ErrMultiLocal

\* two entries the host can run, a run asked to publish: the error
C8_Witness ==
    /\ IsIndexBase /\ bp.target = "local" /\ bp.publish
    /\ Len(adds) = 2
    /\ pc = "done" /\ result = ErrMultiLocal

(***************************************************************************)
(* C9 (Spec): under the local target, when two linux entries of the base   *)
(* index can run on the host, the multi-platform error comes before any    *)
(* compilation: no compiler invocation precedes it.                        *)
(***************************************************************************)
C9_LocalErrorBeforeCompile ==
    (IsIndexBase /\ bp.target = "local" /\ result = ErrMultiLocal) => Compiles = <<>>

(***************************************************************************)
(* C10 (Spec): an output index has the media type of the base index: an    *)
(* OCI image index for an OCI image index, a Docker manifest list for a    *)
(* Docker manifest list.                                                   *)
(***************************************************************************)
C10_IndexMediaType ==
    out.kind = "index" =>
        /\ base.MediaType \in {OCIImageIndex, DockerManifestList}
        /\ out.idx.MediaType = base.MediaType
        /\ Len(out.idx.Manifests) > 1

\* a Docker manifest list was rebuilt and pushed
C10_Witness ==
    /\ out.kind = "index"
    /\ base.MediaType = DockerManifestList
    /\ out.idx.MediaType = DockerManifestList
    /\ \E k \in 1..Len(trace) :
         trace[k].ev = "push" /\ trace[k].kind = "index" /\ trace[k].tag = "ok"

(***************************************************************************)
(* C11 (Spec): every entry of an output index carries the descriptor       *)
(* metadata of the base index entry it was built from: the same URLs, the  *)
(* same platform and the same annotations.                                 *)
(***************************************************************************)
C11_DescriptorCarried ==
    out.kind = "index" =>
        \A k \in 1..Len(out.idx.Manifests) :
            \A m \in 1..Len(base.Manifests) :
                base.Manifests[m].Digest = out.idx.Manifests[k].Add.base =>
                    /\ out.idx.Manifests[k].Descriptor.URLs = base.Manifests[m].URLs
                    /\ out.idx.Manifests[k].Descriptor.Platform = base.Manifests[m].Platform
                    /\ out.idx.Manifests[k].Descriptor.Annotations = base.Manifests[m].Annotations

(***************************************************************************)
(* C12 (Spec): the layer appended to an image has the media type of the    *)
(* family of its base manifest (OCI layer for an OCI manifest, Docker      *)
(* layer for a Docker schema 2 manifest); for a base manifest of any other *)
(* media type the assembly of the image fails with an error: no image is   *)
(* built from it, none is collected, and the run ends with an error.       *)
(***************************************************************************)
C12_LayerMediaTypeFollowsBase ==
    LET good(img) == \/ img.MediaType = OCIManifestSchema1 /\ img.layer = OCILayer
                     \/ img.MediaType = DockerManifestSchema2 /\ img.layer = DockerLayer
    IN  /\ cur.img # NoImage => good(cur.img)
        /\ \A k \in 1..Len(adds) : good(adds[k].Add)
        /\ out.kind = "image" => good(out.img)
        /\ out.kind = "index" =>
             \A k \in 1..Len(out.idx.Manifests) : good(out.idx.Manifests[k].Add)
        /\ (cur.id # "" /\ cur.baseMT \notin {OCIManifestSchema1, DockerManifestSchema2}) =>
             /\ cur.img = NoImage
             /\ pc \in {"create", "compile", "done"}
             /\ pc = "done" => result \in {ErrMkdirTemp, ErrVariant, ErrCompile, ErrMediaType}
             /\ \A k \in 1..Len(adds) : adds[k].Add.base # cur.id

\* an entry with a Docker schema 1 manifest, after an entry that was built:
\* its artifacts compiled, then the media type error
C12_Witness ==
    /\ pc = "done" /\ result = ErrMediaType
    /\ cur.baseMT = DockerManifestSchema1
    /\ Len(adds) > 0
    /\ \E k \in 1..Len(trace) : IsCompile(trace[k]) /\ trace[k].tag = cur.id

\* the errors with which the assembly of the images ends a run
AssemblyErrors ==
    {ErrInterpret, ErrUnknownPlatform, ErrMkdirTemp, ErrVariant, ErrCompile,
     ErrMediaType, ErrLayer, ErrMultiLocal, Panic} \cup PolicyErrors

(***************************************************************************)
(* C13 (Spec): a compilation that fails, for any artifact of any entry     *)
(* that builds, ends the run with the compile error and nothing follows    *)
(* it; a delivery happens only when every entry of the base that builds    *)
(* was assembled; a run that ends with an error of the assembly has        *)
(* delivered nothing.                                                      *)
(***************************************************************************)
C13_FailFastNoPartialDelivery ==
    /\ \A k \in 1..Len(trace) :
         (IsCompile(trace[k]) /\ trace[k].kind = "fail") =>
             /\ k = Len(trace)
             /\ pc = "done" /\ result = ErrCompile
    /\ Deliveries # <<>> =>
         /\ pc \in {"deliver", "done"}
         /\ out.kind # "none"
         /\ IsIndexBase =>
              /\ i > Len(base.Manifests)
              /\ AddsDigests = DigestsWhere(base.Manifests, Len(base.Manifests), TRUE)
         /\ IsImageBase => cur.img # NoImage /\ cur.todo = {}
    /\ result \in AssemblyErrors => Deliveries = <<>>

\* the compilation for the second entry that builds failed in a run asked
\* to publish: the run is over and nothing was delivered
C13_Witness ==
    /\ IsIndexBase /\ bp.publish
    /\ pc = "done" /\ result = ErrCompile
    /\ Len(adds) > 0
    /\ trace[Len(trace)].kind = "fail"
    /\ Deliveries = <<>>

(***************************************************************************)
(* C14 (Spec): a temporary directory of createImageForBase exists only     *)
(* while that call is running: it is removed when the call returns, with   *)
(* an image or with an error (variant, compilation, media type, layer);    *)
(* at most one exists at any moment and none when the run is over.         *)
(***************************************************************************)
C14_TempDirRemoved ==
    /\ Cardinality(tmpDirs) <= 1
    /\ tmpDirs # {} => pc = "compile" /\ tmpDirs = {cur.id}
    /\ pc = "done" => tmpDirs = {}

\* the second call of a run created its directory and returned the layer
\* error; the first returned an image
C14_Witness ==
    /\ pc = "done" /\ result = ErrLayer
    /\ Len(adds) > 0
    /\ cur.id # adds[1].Add.base
    /\ tmpDirs = {}

\* the images of the output that is delivered
OutImages ==
    CASE out.kind = "image" -> {out.img}
      [] out.kind = "index" -> {out.idx.Manifests[k].Add : k \in 1..Len(out.idx.Manifests)}
      [] OTHER -> {}

(***************************************************************************)
(* C15 (Spec): when annotations are given, whatever is delivered carries   *)
(* them: every image delivered has them on its manifest, be the base an    *)
(* image or an index and be the delivery a push, a local load or a write   *)
(* to a file; an index delivered has them on itself and on each image.     *)
(***************************************************************************)
C15_AnnotationsDelivered ==
    (bp.annotations # {} /\ Deliveries # <<>>) =>
        /\ \A img \in OutImages : bp.annotations \subseteq img.Annotations
        /\ out.kind = "index" => bp.annotations \subseteq out.idx.Annotations

(***************************************************************************)
(* C16 (Spec): when a command is given after the flags, every image        *)
(* delivered has it as its invocation, be the base an image or an index;   *)
(* when none is given every image delivered has the invocation of its      *)
(* base.                                                                   *)
(***************************************************************************)
C16_CommandOverride ==
    Deliveries # <<>> =>
        \A img \in OutImages :
            img.Cmd = (IF Len(bp.args) > 0 THEN bp.args ELSE <<"base">>)

(***************************************************************************)
(* C17 (Spec): the delivery actions of a run are all of one mode: pushes   *)
(* to a registry (publish, target not local), or loads into the local      *)
(* runtime (publish, target local), or writes to the out path (out without *)
(* publish).  When neither publish nor out is asked for, the run delivers  *)
(* nothing, and after the assembly it ends without error.                  *)
(***************************************************************************)
C17_OneDeliveryMode ==
    LET dl == Deliveries
    IN  /\ \A k \in 1..Len(dl) :
             /\ dl[k].ev = dl[1].ev
             /\ dl[k].ev = "push" => bp.publish /\ bp.target # "local"
             /\ dl[k].ev = "load" => bp.publish /\ bp.target = "local"
             /\ dl[k].ev = "write" => ~bp.publish /\ bp.outPath # ""
        /\ (~bp.publish /\ bp.outPath = "") =>
             /\ dl = <<>>
             /\ result \notin {ErrDeliver, ErrNoCLI}
             /\ (pc = "done" /\ out.kind # "none") => result = "nil"

\* publish and out are both asked for under the local target: the image is
\* loaded for every reference and nothing is pushed or written
C17_Witness ==
    /\ bp.publish /\ bp.outPath # "" /\ bp.target = "local"
    /\ pc = "done" /\ result = "nil"
    /\ Len(Deliveries) = Len(bp.imageRefs)
    /\ Len(Deliveries) > 1
    /\ \A k \in 1..Len(Deliveries) : Deliveries[k].ev = "load"

\* the variant is the letter v followed by one decimal digit
WellFormedVariant(v) == Len(v) = 2 /\ v[1] = "v" /\ v[2] \in Digits

(***************************************************************************)
(* C18 (Spec): for an arm platform whose variant is not the letter v       *)
(* followed by one digit ("7", "", "v", "v10", "vx"), createImageForBase   *)
(* returns the variant error before the compiler is run for any artifact   *)
(* (unless the temporary directory could not be made, which comes first);  *)
(* for v<digit> the decoding succeeds, its value is that digit, and the    *)
(* compiler is run with it.                                                *)
(***************************************************************************)
C18_ArmVariantDecoded ==
    (cur.id # "" /\ cur.platform.Architecture = "arm") =>
        LET v == cur.platform.Variant
        IN  /\ ~WellFormedVariant(v) =>
                 /\ pc \in {"create", "done"}
                 /\ pc = "done" => result \in {ErrVariant, ErrMkdirTemp}
                 /\ cur.img = NoImage
                 /\ \A k \in 1..Len(trace) :
                      ~(IsCompile(trace[k]) /\ trace[k].tag = cur.id)
            /\ result = ErrVariant => ~WellFormedVariant(v)
            /\ pc \in {"compile", "single", "add"} =>
                 /\ WellFormedVariant(v)
                 /\ cur.env[Len(cur.env)].name = v[2]

\* the variant v10: the run ended with the variant error
C18_Witness ==
    /\ cur.platform.Architecture = "arm"
    /\ cur.platform.Variant = <<"v", "1", "0">>
    /\ pc = "done" /\ result = ErrVariant
    /\ Compiles = <<>>

\* the position in the base index of the entry with digest dg
Pos(dg) == CHOOSE k \in 1..Len(base.Manifests) : base.Manifests[k].Digest = dg

\* what the run did for one entry of the base index: it skipped it, ran the
\* compiler for it, or logged the digest of its image
IsEntryEvent(e) == e.ev \in {"skip", "compile", "digest"} /\ e.tag # ""

(***************************************************************************)
(* C19 (Spec): the entries of a base index are processed one at a time in  *)
(* the order of the index: the skips, compiler runs and digests of the     *)
(* trace never go back to an earlier entry, so everything done for an      *)
(* entry is over before anything is done for a later one, and only the     *)
(* entry the loop is at is being built; the entries of an output index are *)
(* the entries of the base that build, in the order of the base.           *)
(***************************************************************************)
C19_SequentialInBaseOrder ==
    IsIndexBase =>
        LET ee == SelectSeq(trace, IsEntryEvent)
        IN  /\ \A k \in 1..(Len(ee) - 1) : Pos(ee[k].tag) <= Pos(ee[k + 1].tag)
            /\ ee # <<>> => Pos(ee[Len(ee)].tag) <= i
            /\ pc \in {"create", "compile", "add"} =>
                 /\ i <= Len(base.Manifests)
                 /\ cur.id = base.Manifests[i].Digest
                 /\ \A k \in 1..Len(adds) : Pos(adds[k].Add.base) < i
            /\ out.kind = "index" =>
                 [k \in 1..Len(out.idx.Manifests) |-> out.idx.Manifests[k].Add.base]
                     = DigestsWhere(base.Manifests, Len(base.Manifests), TRUE)
            /\ out.kind = "image" =>
                 <<out.img.base>> = DigestsWhere(base.Manifests, Len(base.Manifests), TRUE)

\* an output index of entries that build with an entry between them that
\* does not, each compiled for
C19_Witness ==
    /\ IsIndexBase /\ out.kind = "index" /\ pc = "done"
    /\ \E k \in 2..(Len(base.Manifests) - 1) :
         /\ base.Manifests[k].Platform # Nil /\ ~Builds(base.Manifests[k])
         /\ Builds(base.Manifests[k - 1])
         /\ Builds(base.Manifests[k + 1])
    /\ Len(Compiles) >= Len(out.idx.Manifests)

(***************************************************************************)
(* C20 (SpecLayer): in a layer that layerFromFiles produced no two tar     *)
(* entries have the same name: a directory is written at most once, and    *)
(* two sources with the same destination are not both written.             *)
(***************************************************************************)
C20_UniqueDestinations ==
    \A r \in Runs :
        layerStatus[r] = "ok" =>
            \A j, k \in 1..Len(tw[r]) : tw[r][j].Name = tw[r][k].Name => j = k

\* the source cannot be read: it does not exist, cannot be opened or cannot
\* be listed
Unreadable(src) == ~Stat(src).exists \/ ~Stat(src).readable

(***************************************************************************)
(* C21 (SpecLayer): once layerFromFiles has visited a source that cannot   *)
(* be read it has returned an error: it has not crashed, it does not go on *)
(* and it produces no layer.                                               *)
(***************************************************************************)
C21_UnreadableSourceIsError ==
    \A r \in Runs :
        (\E src \in (DOMAIN files) \ remaining[r] : Unreadable(src)) =>
            layerStatus[r] = "err"

(***************************************************************************)
(* C22 (Spec): loadLocalImage first tries daemon.Write and when that       *)
(* succeeds it looks for no binary and runs no command; when it fails the  *)
(* binaries are looked for in the order docker, podman, nerdctl up to the  *)
(* first that is found, the load command is run once, with that binary,    *)
(* and when none is found no command is run and the error is returned.     *)
(***************************************************************************)
C22_LoadLocalOrder ==
    LET order == <<"docker", "podman", "nerdctl">>
        n == Len(load.probes)
    IN  /\ load.daemon = "none" => load = NoLoad
        /\ load.daemon = "ok" => load.probes = <<>> /\ load.ran = <<>>
        /\ load.daemon = "fail" =>
             /\ n \in 1..3
             /\ \A k \in 1..n : load.probes[k].bin = order[k]
             /\ \A k \in 1..(n - 1) : ~load.probes[k].found
             /\ load.probes[n].found => load.ran = <<order[n]>>
             /\ ~load.probes[n].found =>
                  /\ n = 3
                  /\ load.ran = <<>>
                  /\ pc = "done" /\ result = ErrNoCLI

\* the daemon refused, docker was not found, podman was: podman ran and the
\* image was loaded
C22_Witness ==
    /\ load.daemon = "fail"
    /\ Len(load.probes) = 2
    /\ load.ran = <<"podman">>
    /\ trace[Len(trace)].ev = "load" /\ trace[Len(trace)].tag = "ok"

(***************************************************************************)
(* C23 (Spec): every entry createImageForBase adds to the environment of   *)
(* the compiler is a name=value setting, and for an arm platform with      *)
(* variant v<N> the setting GOARM=<N> is among them, next to GOOS and      *)
(* GOARCH.                                                                 *)
(***************************************************************************)
C23_GoarmIsSetting ==
    pc = "compile" =>
        /\ \A k \in 1..Len(cur.env) : cur.env[k].sep
        /\ \E k \in 1..Len(cur.env) : cur.env[k] = EnvSetting("GOOS", cur.platform.OS)
        /\ \E k \in 1..Len(cur.env) :
             cur.env[k] = EnvSetting("GOARCH", cur.platform.Architecture)
        /\ cur.platform.Architecture = "arm" =>
             \E k \in 1..Len(cur.env) :
                 cur.env[k] = EnvSetting("GOARM", cur.platform.Variant[2])

(***************************************************************************)
(* C24 (Spec): a run that ends at an entry of the base index that has no   *)
(* platform ends with the unknown platform error, not with a crash.        *)
(***************************************************************************)
C24_NilPlatformIsError ==
    (IsIndexBase /\ pc = "done" /\ i <= Len(base.Manifests)
                 /\ base.Manifests[i].Platform = Nil) =>
        result = ErrUnknownPlatform

(***************************************************************************)
(* C25 (Spec): when an index is delivered, the index digest that was       *)
(* logged is the digest of the index that is pushed or written, with or    *)
(* without annotations.                                                    *)
(***************************************************************************)
C25_LoggedDigestIsDelivered ==
    (out.kind = "index" /\ Deliveries # <<>>) => out.logged.idx = Digest(out.idx)

====
